---- MODULE Spec2Model ----
(***************************************************************************)
(* Telegram file bot: upload to an S3-compatible store (wasabi_storage.py), *)
(* metadata in PostgreSQL (database.py), bot handlers (bot.py,              *)
(* simple_bot.py) and the web surface (web_app.py).                         *)
(*                                                                          *)
(* Handlers are coroutines: every await of a store or database call is a    *)
(* suspension point and is one action; the synchronous code that follows    *)
(* the call belongs to the same action.  A store or database call that      *)
(* raises is the disjunct ok = FALSE of its action.                         *)
(***************************************************************************)
EXTENDS Integers, Sequences, FiniteSets, TLC

\* ---------------------------------------------------------------- bounds
MaxFileId == 2        \* file ids handed out (one stored row + one handler run)
MaxTime == 3          \* clock ticks
MaxCount == 3         \* cap on a counter that the code never bounds
NReq == 2             \* concurrent GET /d/{link_id} requests
MaxLinks == 2         \* rows of download_links (one stored + created ones)
MaxShares == 3        \* rows of shared_files (one stored + created ones)
MaxDbCount == 1       \* cap on the counters under direct Database calls
NCalls == 3           \* concurrent calls of increment_download_count

\* ------------------------------------------------------ program constants
MiB == 1024 * 1024
ChunkSize == 100 * MiB            \* wasabi_storage.py:56 and :90

\* ------------------------------------------------------------ input sets
UserIds == {1, 2}
BotUserId == 0                    \* the bot's own account
Bots == {"bot", "simple_bot"}
NoName == "<None>"                \* Python's None (SQL NULL) for a name
FileNames == {"movie.mp4", NoName}
NULL == 0 - 1                     \* SQL NULL in a TIMESTAMP column

\* A byte count is a Python int (unbounded): it is kept as mib * 2^20 + b with
\* 0 <= b < 2^20, so that 4 GiB and 4 GiB + 1 are values of the model.
B(n) == [mib |-> n \div MiB, b |-> n % MiB]

SizeGT(x, y) == x.mib > y.mib \/ (x.mib = y.mib /\ x.b > y.b)

SizeAdd(x, y) ==
    [mib |-> x.mib + y.mib + (x.b + y.b) \div MiB, b |-> (x.b + y.b) % MiB]

\* x - y for x >= y
SizeSub(x, y) ==
    IF x.b >= y.b THEN [mib |-> x.mib - y.mib, b |-> x.b - y.b]
    ELSE [mib |-> x.mib - y.mib - 1, b |-> x.b + MiB - y.b]

SizeMin(x, y) == IF SizeGT(x, y) THEN y ELSE x

\* 4 * 1024 * 1024 * 1024 (bot.py:259, simple_bot.py:133)
MaxFileSize == [mib |-> 4 * 1024, b |-> 0]
\* database.py:63: storage_limit BIGINT DEFAULT 2147483648
StorageLimit == [mib |-> 2048, b |-> 0]

FileSizes == {B(0), B(ChunkSize), B(ChunkSize + 1), B(200 * MiB), B(250 * MiB),
              MaxFileSize,
              SizeAdd(MaxFileSize, B(1))}

VARIABLES
    now,          \* CURRENT_TIMESTAMP
    files,        \* table files: file_id -> row
    links,        \* table download_links: link_id -> row
    objects,      \* keys of the complete objects in the bucket
    sessions,     \* multipart sessions of the store, indexed by UploadId
    nextFileId,   \* stands for uuid.uuid4(): ids never repeat
    up,           \* the run of the upload handler
    req,          \* the GET /d/{link_id} requests in flight
    redirects,    \* link_id -> number of RedirectResponse sent
    dl,           \* the last download-link request of a bot
    shares,       \* table shared_files: id -> row
    reply,        \* the last reply of a bot command on links, shares, streams
    users,        \* table users: user_id -> row
    callers       \* the concurrent calls of Database.increment_download_count

vars == <<now, files, links, objects, sessions, nextFileId, up, req, redirects, dl,
          shares, reply, users, callers>>

\* ------------------------------------------------------------- key, rows
\* bot.py:273 / simple_bot.py:137,174: the name used in the key
key_name(b, file_name) ==
    IF file_name # NoName THEN file_name
    ELSE IF b = "bot" THEN "unnamed" ELSE "None"

\* bot.py:287 file_info.file_name or 'unnamed' / simple_bot.py:214 file_name
original_name(b, file_name) ==
    IF b = "bot" /\ file_name = NoName THEN "unnamed" ELSE file_name

\* f"files/{file_id}/{name}"
wasabi_key(b, file_id, file_name) == <<"files", file_id, key_name(b, file_name)>>

up_key == wasabi_key(up.bot, up.file_id, up.name)

\* database.py:30 mime_type VARCHAR(100): <<type, subtype>> for "type/subtype",
\* <<>> for NULL
NoMime == <<>>
MimeTypes == {<<"video", "mp4">>, <<"audio", "mpeg">>, <<"application", "pdf">>,
              <<"image", "jpeg">>, NoMime}

\* bot.py:289 / simple_bot.py:216: the mime type Telegram reports for the
\* file, or the one guessed from its name
mime_type_guessed(mime, file_name) ==
    IF file_name = "movie.mp4" THEN <<"video", "mp4">> ELSE NoMime

mime_type(mime, file_name) == mime

\* the name and mime type Telegram declares for the files sent
Inbound == { [name |-> "movie.mp4", mime |-> <<"video", "mp4">>],
             [name |-> NoName, mime |-> <<"video", "mp4">>] }

\* database.py:35: is_public BOOLEAN DEFAULT true
is_public_default_private == FALSE

is_public_default == TRUE

\* database.py:22-40 with the values of save_file (is_public and
\* download_count are not written: their column defaults apply)
file_row(b, file_id, file_name, mime, size, user, t) ==
    [ wasabi_key |-> wasabi_key(b, file_id, file_name),
      original_name |-> original_name(b, file_name),
      file_size |-> size,
      mime_type |-> mime_type(mime, file_name),
      uploader_id |-> user,
      upload_date |-> t,
      download_count |-> 0,
      is_public |-> is_public_default,
      tags |-> {} ]

IdleUp == [ pc |-> "idle", bot |-> "bot", user |-> 1, name |-> NoName,
            mime |-> NoMime, size |-> B(0),
            file_id |-> 0, temp |-> "none", upload_id |-> 0, part_number |-> 0,
            uploaded_bytes |-> B(0), parts |-> <<>>, success |-> FALSE,
            failed |-> "none", raised |-> FALSE, outcome |-> "none",
            callback |-> FALSE, progress |-> <<>> ]

\* ================================================================ upload
\* bot.py:239-329 process_file_upload, simple_bot.py:111-285 handle_file,
\* wasabi_storage.py:48-162 upload_file.  The fields of up:
\*   pc              position of the coroutine
\*   temp            "none" | "exists" | "removed": the NamedTemporaryFile
\*   success         the value returned by storage.upload_file
\*   failed          the store call of upload_file that raised, or "none"
\*   raised          an exception left upload_file
\*   outcome         "success" | "failure" once the handler has returned

others_up == <<now, links, req, redirects, dl, shares, reply, users, callers>>

\* bot.py:259 / simple_bot.py:133: file_size > 4 * 1024 * 1024 * 1024
too_large_inclusive(s) == ~SizeGT(MaxFileSize, s)

too_large(s) == SizeGT(s, MaxFileSize)

\* bot.py:279 storage.upload_file(temp_path, wasabi_key) /
\* simple_bot.py:205 storage.upload_file(temp_path, wasabi_key, progress_callback):
\* whether upload_file is given a progress callback
callback_given(b) == b = "simple_bot"

\* bot.py:258-264 / simple_bot.py:131-148: the size test with its reply and
\* return, else uuid4, status message, try:
handle_file_start(b, u, n, m, s) ==
    /\ up.pc \in {"idle", "returned"}
    /\ nextFileId <= MaxFileId
    /\ IF too_large(s)
       THEN /\ up' = [IdleUp EXCEPT !.pc = "returned", !.outcome = "rejected",
                                    !.bot = b, !.user = u, !.name = n, !.mime = m,
                                    !.size = s]
            /\ nextFileId' = nextFileId
       ELSE /\ up' = [IdleUp EXCEPT
                        !.pc = IF b = "simple_bot" THEN "connect" ELSE "download",
                        !.bot = b, !.user = u, !.name = n, !.mime = m, !.size = s,
                        !.file_id = nextFileId, !.callback = callback_given(b)]
            /\ nextFileId' = nextFileId + 1
    /\ UNCHANGED <<files, objects, sessions>>
    /\ UNCHANGED others_up

\* simple_bot.py:152-153: if not db.pool: await db.connect()
handle_file_connect(ok) ==
    /\ up.pc = "connect"
    /\ up' = [up EXCEPT !.pc = IF ok THEN "download" ELSE "except"]
    /\ UNCHANGED <<files, objects, sessions, nextFileId>>
    /\ UNCHANGED others_up

\* bot.py:268-270 / simple_bot.py:157-159: NamedTemporaryFile(delete=False)
\* creates the file, then message.download fills it or raises
handle_file_download(ok) ==
    /\ up.pc = "download"
    /\ up' = [up EXCEPT !.temp = "exists",
                        !.pc = IF ~ok THEN "except"
                               ELSE IF up.bot = "simple_bot" THEN "edit_progress"
                               ELSE "getsize"]
    /\ UNCHANGED <<files, objects, sessions, nextFileId>>
    /\ UNCHANGED others_up

\* simple_bot.py:164-171: status_msg.edit_text before the transfer
handle_file_edit_progress(ok) ==
    /\ up.pc = "edit_progress"
    /\ up' = [up EXCEPT !.pc = IF ok THEN "getsize" ELSE "except"]
    /\ UNCHANGED <<files, objects, sessions, nextFileId>>
    /\ UNCHANGED others_up

\* wasabi_storage.py:61-63 and :57-59: what upload_file hands to its caller
\* when the strategy it ran returned True (inner = "True") or raised
upload_file_leak(u, inner) ==
    IF inner = "True"
    THEN [u EXCEPT !.pc = "uploaded", !.success = TRUE]
    ELSE [u EXCEPT !.pc = "except", !.raised = TRUE]

upload_file_return(u, inner) ==
    IF inner = "True"
    THEN [u EXCEPT !.pc = "uploaded", !.success = TRUE]
    ELSE [u EXCEPT !.pc = "uploaded", !.success = FALSE]

\* wasabi_storage.py:56: if file_size > 100 * 1024 * 1024
use_multipart_inclusive(size) == ~SizeGT(B(100 * 1024 * 1024), size)

use_multipart(size) == SizeGT(size, B(100 * 1024 * 1024))

\* wasabi_storage.py:53-59: os.path.getsize and the choice of the strategy
upload_file_getsize(ok) ==
    /\ up.pc = "getsize"
    /\ up' = IF ~ok THEN upload_file_return([up EXCEPT !.failed = "getsize"], "raise")
             ELSE IF use_multipart(up.size) THEN [up EXCEPT !.pc = "mp_create"]
             ELSE [up EXCEPT !.pc = "single"]
    /\ UNCHANGED <<files, objects, sessions, nextFileId>>
    /\ UNCHANGED others_up

\* wasabi_storage.py:65-82 _single_upload
single_upload(ok) ==
    /\ up.pc = "single"
    /\ IF ok
       THEN /\ objects' = objects \cup {up_key}
            /\ up' = upload_file_return(up, "True")
       ELSE /\ objects' = objects
            /\ up' = upload_file_return([up EXCEPT !.failed = "single"], "raise")
    /\ UNCHANGED <<files, sessions, nextFileId>>
    /\ UNCHANGED others_up

\* wasabi_storage.py:89-102: create_multipart_upload, outside the try
multipart_create(ok) ==
    /\ up.pc = "mp_create"
    /\ IF ok
       THEN /\ sessions' = Append(sessions, [key |-> up_key, state |-> "open",
                                             abort_calls |-> 0, abort_failed |-> FALSE,
                                             received |-> <<>>, completed_with |-> <<>>,
                                             in_flight |-> {}])
            /\ up' = [up EXCEPT !.pc = "mp_part", !.upload_id = Len(sessions) + 1,
                                !.part_number = 1, !.uploaded_bytes = B(0), !.parts = <<>>]
       ELSE /\ sessions' = sessions
            /\ up' = upload_file_return([up EXCEPT !.failed = "create"], "raise")
    /\ UNCHANGED <<files, objects, nextFileId>>
    /\ UNCHANGED others_up

\* wasabi_storage.py:112: chunk = f.read(chunk_size)
chunk_len_whole_only(u) ==
    IF SizeGT(B(ChunkSize), SizeSub(u.size, u.uploaded_bytes)) THEN B(0)
    ELSE B(ChunkSize)

chunk_len(u) == SizeMin(B(ChunkSize), SizeSub(u.size, u.uploaded_bytes))

\* the ETag the store returns for a part
etag(upload_id, pn, len) == <<upload_id, pn, len>>

\* wasabi_storage.py:152: the except clause a failed step of the try enters
multipart_except_skip(u, step) ==
    upload_file_return([u EXCEPT !.failed = step], "raise")

multipart_except(u, step) == [u EXCEPT !.pc = "mp_abort", !.failed = step]

\* wasabi_storage.py:128-131: the entry appended for the part just uploaded
part_entry_by_position(u, tag) == [ETag |-> tag, PartNumber |-> Len(u.parts)]

part_entry(u, tag) == [ETag |-> tag, PartNumber |-> u.part_number]

\* wasabi_storage.py:116-126: response = await loop.run_in_executor(...): the
\* coroutine is suspended until the executor's upload_part has returned
await_part_task(u) ==
    [u EXCEPT !.part_number = u.part_number + 1,
              !.uploaded_bytes = SizeAdd(u.uploaded_bytes, chunk_len(u))]

await_part(u) == [u EXCEPT !.pc = "mp_part_wait"]

\* wasabi_storage.py:133-135: uploaded_bytes += len(chunk); if progress_callback:
\* progress_callback(uploaded_bytes); the values the callback has been given
progress_callback_chunk(u, len) ==
    IF u.callback THEN Append(u.progress, len) ELSE u.progress

progress_callback(u, len) ==
    IF u.callback THEN Append(u.progress, SizeAdd(u.uploaded_bytes, len))
    ELSE u.progress

\* wasabi_storage.py:111-126: a non-empty chunk is read and handed to
\* s3_client.upload_part; the store starts to receive part part_number
upload_part_call ==
    /\ up.pc = "mp_part"
    /\ chunk_len(up) # B(0)
    /\ sessions' = [sessions EXCEPT ![up.upload_id].in_flight =
                                      @ \cup {up.part_number}]
    /\ up' = await_part(up)
    /\ UNCHANGED <<files, objects, nextFileId>>
    /\ UNCHANGED others_up

\* wasabi_storage.py:126-137: upload_part returns or raises; the store keeps
\* what it received (PartNumber, length of Body) with the ETag it answered
multipart_part(ok) ==
    /\ up.pc = "mp_part_wait"
    /\ LET tag == etag(up.upload_id, up.part_number, chunk_len(up)) IN
         IF ok
         THEN /\ sessions' = [sessions EXCEPT
                                ![up.upload_id].in_flight = @ \ {up.part_number},
                                ![up.upload_id].received =
                                   Append(@, [PartNumber |-> up.part_number,
                                              Size |-> chunk_len(up), ETag |-> tag])]
              /\ up' = [up EXCEPT !.pc = "mp_part",
                                  !.parts = Append(up.parts, part_entry(up, tag)),
                                  !.uploaded_bytes = SizeAdd(up.uploaded_bytes,
                                                             chunk_len(up)),
                                  !.progress = progress_callback(up, chunk_len(up)),
                                  !.part_number = up.part_number + 1]
         ELSE /\ sessions' = [sessions EXCEPT
                                ![up.upload_id].in_flight = @ \ {up.part_number}]
              /\ up' = multipart_except(up, "part")
    /\ UNCHANGED <<files, objects, nextFileId>>
    /\ UNCHANGED others_up

\* wasabi_storage.py:113-114 and :140-150: empty chunk, break, complete
multipart_complete(ok) ==
    /\ up.pc = "mp_part"
    /\ chunk_len(up) = B(0)
    /\ IF ok
       THEN /\ sessions' = [sessions EXCEPT ![up.upload_id].state = "completed",
                                            ![up.upload_id].completed_with = up.parts]
            /\ objects' = objects \cup {up_key}
            /\ up' = upload_file_return(up, "True")
       ELSE /\ sessions' = sessions
            /\ objects' = objects
            /\ up' = multipart_except(up, "complete")
    /\ UNCHANGED <<files, nextFileId>>
    /\ UNCHANGED others_up

\* wasabi_storage.py:153-162: abort_multipart_upload, then raise e; when the
\* abort call raises, its exception leaves _multipart_upload instead
multipart_abort(ok) ==
    /\ up.pc = "mp_abort"
    /\ sessions' = [sessions EXCEPT
                      ![up.upload_id].abort_calls = @ + 1,
                      ![up.upload_id].state = IF ok THEN "aborted" ELSE @,
                      ![up.upload_id].abort_failed = ~ok]
    /\ up' = upload_file_return(up, "raise")
    /\ UNCHANGED <<files, objects, nextFileId>>
    /\ UNCHANGED others_up

\* database.py:85-108 save_file: the INSERT; file_id is UNIQUE (database.py:25),
\* the violation is raised by conn.fetchrow and no except clause stands between
\* it and the caller
save_file_upsert(fs, b, file_id, file_name, mime, size, user, t) ==
    [ raised |-> FALSE,
      files |-> (file_id :> file_row(b, file_id, file_name, mime, size, user, t)) @@ fs ]

save_file(fs, b, file_id, file_name, mime, size, user, t) ==
    IF file_id \in DOMAIN fs
    THEN [ raised |-> TRUE, files |-> fs ]
    ELSE [ raised |-> FALSE,
           files |-> (file_id :> file_row(b, file_id, file_name, mime, size, user, t)) @@ fs ]

\* database.py:110-118 get_file: the row ({} when fetchrow returns None)
get_file(fs, file_id) == IF file_id \in DOMAIN fs THEN {fs[file_id]} ELSE {}

\* bot.py:281-299 / simple_bot.py:208-226: if success: ... await db.save_file
handle_file_save_always(ok) ==
    /\ up.pc = "uploaded"
    /\ LET saved == save_file(files, up.bot, up.file_id, up.name, up.mime, up.size, up.user, now)
       IN  IF ok /\ ~saved.raised
           THEN /\ files' = saved.files
                /\ up' = [up EXCEPT !.pc = "edit_done"]
           ELSE /\ files' = files
                /\ up' = [up EXCEPT !.pc = "except"]
    /\ UNCHANGED <<objects, sessions, nextFileId>>
    /\ UNCHANGED others_up

handle_file_save(ok) ==
    /\ up.pc = "uploaded"
    /\ up.success
    /\ LET saved == save_file(files, up.bot, up.file_id, up.name, up.mime, up.size, up.user, now)
       IN  IF ok /\ ~saved.raised
           THEN /\ files' = saved.files
                /\ up' = [up EXCEPT !.pc = "edit_done"]
           ELSE /\ files' = files
                /\ up' = [up EXCEPT !.pc = "except"]
    /\ UNCHANGED <<objects, sessions, nextFileId>>
    /\ UNCHANGED others_up

\* bot.py:313-321 / simple_bot.py:253-264: the success message
handle_file_edit_done(ok) ==
    /\ up.pc = "edit_done"
    /\ up' = IF ok THEN [up EXCEPT !.pc = "unlink", !.outcome = "success"]
             ELSE [up EXCEPT !.pc = "except"]
    /\ UNCHANGED <<files, objects, sessions, nextFileId>>
    /\ UNCHANGED others_up

\* bot.py:322-323 / simple_bot.py:265-272: else: the failure message
handle_file_edit_failed(ok) ==
    /\ up.pc = "uploaded"
    /\ ~up.success
    /\ up' = IF ok THEN [up EXCEPT !.pc = "unlink", !.outcome = "failure"]
             ELSE [up EXCEPT !.pc = "except"]
    /\ UNCHANGED <<files, objects, sessions, nextFileId>>
    /\ UNCHANGED others_up

\* bot.py:325-326 / simple_bot.py:274-275: os.unlink(temp_path), return
handle_file_unlink ==
    /\ up.pc = "unlink"
    /\ up' = [up EXCEPT !.pc = "returned", !.temp = "removed"]
    /\ UNCHANGED <<files, objects, sessions, nextFileId>>
    /\ UNCHANGED others_up

\* bot.py:328-329 / simple_bot.py:277-285: except Exception: error message
handle_file_except ==
    /\ up.pc = "except"
    /\ up' = [up EXCEPT !.pc = "returned", !.outcome = "failure"]
    /\ UNCHANGED <<files, objects, sessions, nextFileId>>
    /\ UNCHANGED others_up

\* ========================================================== download links
\* database.py:72-83: a row of download_links
FileIds == 1..MaxFileId
LinkIds == 1..(MaxLinks + 1)
others_link == <<files, objects, sessions, nextFileId, up, dl, shares, reply, users, callers>>

\* database.py:228: dl.expires_at IS NULL OR dl.expires_at > CURRENT_TIMESTAMP
not_expired_inclusive(row, t) == row.expires_at = NULL \/ row.expires_at >= t

not_expired(row, t) == row.expires_at = NULL \/ row.expires_at > t

\* database.py:229: dl.max_access = -1 OR dl.access_count < dl.max_access
access_left_inclusive(row) == row.max_access = -1 \/ row.access_count <= row.max_access

access_left(row) == row.max_access = -1 \/ row.access_count < row.max_access

\* database.py:220-233 get_file_by_download_link: the file ids of the rows
\* the SELECT returns ({} when fetchrow returns None)
get_file_by_download_link(ls, fs, link_id, t) ==
    { f \in DOMAIN fs : /\ link_id \in DOMAIN ls
                        /\ ls[link_id].file_id = f
                        /\ not_expired(ls[link_id], t)
                        /\ access_left(ls[link_id]) }

\* database.py:235-241 increment_link_access: UPDATE ... WHERE link_id = $1
increment_link_access_all(ls, link_id) ==
    [l \in DOMAIN ls |-> [ls[l] EXCEPT !.access_count = @ + 1]]

increment_link_access(ls, link_id) ==
    [l \in DOMAIN ls |-> IF l = link_id
                         THEN [ls[l] EXCEPT !.access_count = @ + 1]
                         ELSE ls[l]]

IdleReq == [pc |-> "idle", link_id |-> 1, file_id |-> 0, status |-> 0, detail |-> ""]

\* web_app.py:44: the HTTPException raised when the SELECT returned no row
not_found_telling(ls, link_id, t) ==
    [ status |-> 404,
      detail |-> IF link_id \in DOMAIN ls THEN "Link expired" ELSE "File not found" ]

not_found(ls, link_id, t) ==
    [ status |-> 404, detail |-> "File not found or link expired" ]

\* web_app.py:41-44: the SELECT, then 404 when it returned no row
download_by_link_get(r, l) ==
    /\ req[r].pc = "idle"
    /\ LET found == get_file_by_download_link(links, files, l, now) IN
         IF found = {}
         THEN req' = [req EXCEPT ![r] =
                        [IdleReq EXCEPT !.link_id = l,
                                        !.status = not_found(links, l, now).status,
                                        !.detail = not_found(links, l, now).detail]]
         ELSE /\ links[l].access_count < MaxCount
              /\ req' = [req EXCEPT ![r] = [pc |-> "increment", link_id |-> l,
                                           file_id |-> CHOOSE f \in found : TRUE,
                                           status |-> 0, detail |-> ""]]
    /\ UNCHANGED <<now, links, redirects>>
    /\ UNCHANGED others_link

\* web_app.py:47-56: the UPDATE, then the presigned URL ("" when the store
\* client raised) and the RedirectResponse
download_by_link_increment(r) ==
    /\ req[r].pc = "increment"
    /\ links' = increment_link_access(links, req[r].link_id)
    /\ redirects' = [redirects EXCEPT ![req[r].link_id] = @ + 1]
    /\ req' = [req EXCEPT ![r].pc = "idle", ![r].status = 307]
    /\ UNCHANGED now
    /\ UNCHANGED others_link

\* CURRENT_TIMESTAMP advances
Tick ==
    /\ now < MaxTime
    /\ now' = now + 1
    /\ UNCHANGED <<links, req, redirects>>
    /\ UNCHANGED others_link

\* ========================================================= temporary links
\* bot.py:530: timedelta(hours=24), in clock ticks
Hours24 == 1
\* bot.py:535: max_access=10
TempLinkMaxAccess == 10

\* database.py:205-218 create_download_link: INSERT INTO download_links
\* (access_count takes its column default 0, database.py:79)
create_download_link_replacing(ls, link_id, file_id, created_by, expires_at, max_access) ==
    (link_id :> [ file_id |-> file_id, created_by |-> created_by,
                  expires_at |-> expires_at, access_count |-> 0,
                  max_access |-> max_access ])

create_download_link(ls, link_id, file_id, created_by, expires_at, max_access) ==
    ls @@ (link_id :> [ file_id |-> file_id, created_by |-> created_by,
                        expires_at |-> expires_at, access_count |-> 0,
                        max_access |-> max_access ])

\* bot.py:525: the ownership test
link_denied_private_only(row, requester) == row.uploader_id # requester /\ ~row.is_public

link_denied(row, requester) == row.uploader_id # requester

\* bot.py:517-547 create_temporary_link (reached from the /link command
\* only, bot.py:185-192); ok = FALSE: the INSERT raised. The new link_id
\* stands for uuid.uuid4().
create_temporary_link(requester, f, ok) ==
    /\ IF f \notin DOMAIN files
       THEN /\ reply' = [op |-> "templink", user |-> requester, file_id |-> f,
                         result |-> "NotFound"]
            /\ links' = links
       ELSE IF link_denied(files[f], requester)
       THEN /\ reply' = [op |-> "templink", user |-> requester, file_id |-> f,
                         result |-> "Denied"]
            /\ links' = links
       ELSE IF ~ok
       THEN /\ reply' = [op |-> "templink", user |-> requester, file_id |-> f,
                         result |-> "Error"]
            /\ links' = links
       ELSE /\ Cardinality(DOMAIN links) < MaxLinks
            /\ reply' = [op |-> "templink", user |-> requester, file_id |-> f,
                         result |-> "Link",
                         link_id |-> Cardinality(DOMAIN links) + 1]
            /\ links' = create_download_link(links, Cardinality(DOMAIN links) + 1, f,
                                             requester, now + Hours24, TempLinkMaxAccess)
    /\ UNCHANGED <<now, files, objects, sessions, nextFileId, up, req, redirects, dl,
                   shares, users, callers>>

\* ====================================================== bot download link
others_dl == <<now, links, objects, sessions, nextFileId, up, req, redirects,
              shares, reply, users, callers>>

\* database.py:152-158 increment_download_count: UPDATE ... WHERE file_id = $1
increment_download_count_set(fs, file_id) ==
    [f \in DOMAIN fs |-> IF f = file_id
                         THEN [fs[f] EXCEPT !.download_count = 1]
                         ELSE fs[f]]

increment_download_count(fs, file_id) ==
    [f \in DOMAIN fs |-> IF f = file_id
                         THEN [fs[f] EXCEPT !.download_count = @ + 1]
                         ELSE fs[f]]

\* bot.py:374: the ownership / public test
access_denied(row, from_user) == row.uploader_id # from_user /\ ~row.is_public

\* bot.py:132-139 (command) and bot.py:214-216 (callback: the message
\* handed over is the bot's own message, whose from_user is the bot)
from_user(path, requester) == IF path = "command" THEN requester ELSE BotUserId

\* bot.py:365-398 generate_download_link; url_ok = FALSE: generate_presigned_url
\* returned "" (wasabi_storage.py:247-249)
generate_download_link(path, requester, f, url_ok) ==
    /\ IF f \notin DOMAIN files
       THEN /\ dl' = [bot |-> "bot", path |-> path, user |-> requester,
                      file_id |-> f, result |-> "NotFound"]
            /\ files' = files
       ELSE IF access_denied(files[f], from_user(path, requester))
       THEN /\ dl' = [bot |-> "bot", path |-> path, user |-> requester,
                      file_id |-> f, result |-> "Denied"]
            /\ files' = files
       ELSE /\ files[f].download_count < MaxCount
            /\ dl' = [bot |-> "bot", path |-> path, user |-> requester,
                      file_id |-> f, result |-> IF url_ok THEN "Url" ELSE "NoUrl"]
            /\ files' = increment_download_count(files, f)
    /\ UNCHANGED others_dl

\* simple_bot.py:338-369 handle_callback, download_ branch
simple_bot_download(requester, f, url_ok) ==
    /\ IF f \notin DOMAIN files
       THEN /\ dl' = [bot |-> "simple_bot", path |-> "callback", user |-> requester,
                      file_id |-> f, result |-> "NotFound"]
            /\ files' = files
       ELSE /\ files[f].download_count < MaxCount
            /\ dl' = [bot |-> "simple_bot", path |-> "callback", user |-> requester,
                      file_id |-> f, result |-> IF url_ok THEN "Url" ELSE "NoUrl"]
            /\ files' = increment_download_count(files, f)
    /\ UNCHANGED others_dl

\* ================================================================= shares
\* database.py:185-189 share_file: INSERT INTO shared_files ... RETURNING id
\* (id SERIAL, database.py:45; access_count takes its default 0, database.py:52)
share_row(file_id, shared_with_user_id, shared_by_user_id, permission, expires_at) ==
    [ file_id |-> file_id, shared_with_user_id |-> shared_with_user_id,
      shared_by_user_id |-> shared_by_user_id, permission_level |-> permission,
      expires_at |-> expires_at, access_count |-> 0 ]

\* bot.py:481: the ownership test
share_denied_private_only(row, requester) == row.uploader_id # requester /\ ~row.is_public

share_denied(row, requester) == row.uploader_id # requester

\* bot.py:473-498 share_file (reached from the /share command only,
\* bot.py:168-179); ok = FALSE: the INSERT raised
share_file(requester, f, target, ok) ==
    /\ IF f \notin DOMAIN files
       THEN /\ reply' = [op |-> "share", user |-> requester, file_id |-> f,
                         result |-> "NotFound"]
            /\ shares' = shares
       ELSE IF share_denied(files[f], requester)
       THEN /\ reply' = [op |-> "share", user |-> requester, file_id |-> f,
                         result |-> "Denied"]
            /\ shares' = shares
       ELSE IF ~ok
       THEN /\ reply' = [op |-> "share", user |-> requester, file_id |-> f,
                         result |-> "Error"]
            /\ shares' = shares
       ELSE /\ Cardinality(DOMAIN shares) < MaxShares
            /\ reply' = [op |-> "share", user |-> requester, file_id |-> f,
                         result |-> "Shared",
                         share_id |-> Cardinality(DOMAIN shares) + 1]
            /\ shares' = shares @@ (Cardinality(DOMAIN shares) + 1 :>
                                      share_row(f, target, requester, "read", NULL))
    /\ UNCHANGED <<now, files, links, objects, sessions, nextFileId, up, req,
                   redirects, dl, users, callers>>

\* database.py:198-199: the WHERE clause on the share row
share_visible_inclusive(row, user_id, t) ==
    /\ row.shared_with_user_id = user_id
    /\ (row.expires_at = NULL \/ row.expires_at >= t)

share_visible(row, user_id, t) ==
    /\ row.shared_with_user_id = user_id
    /\ (row.expires_at = NULL \/ row.expires_at > t)

\* database.py:192-203 get_shared_files: the rows of files JOIN shared_files
\* (which rows come back, not their order)
get_shared_files(ss, fs, user_id, t) ==
    { [ file_id |-> ss[i].file_id, share_id |-> i,
        shared_by_user_id |-> ss[i].shared_by_user_id ] :
      i \in { j \in DOMAIN ss : /\ ss[j].file_id \in DOMAIN fs
                                 /\ share_visible(ss[j], user_id, t) } }

\* bot.py:500-515 list_shared_files, from /shared (bot.py:181-183) or from the
\* shared_files button (bot.py:212-213)
list_shared_files(path, requester) ==
    /\ reply' = [op |-> "shared", user |-> requester,
                 for_user |-> from_user(path, requester),
                 rows |-> get_shared_files(shares, files, from_user(path, requester), now)]
    /\ UNCHANGED <<now, files, links, objects, sessions, nextFileId, up, req,
                   redirects, dl, shares, users, callers>>

\* =============================================================== streaming
\* bot.py:409-412 / web_app.py:80-82: the test on mime_type
streamable_video_only(mime) == mime # NoMime /\ mime[1] = "video"

streamable(mime) == mime # NoMime /\ (mime[1] = "video" \/ mime[1] = "audio")

\* bot.py:400-429 generate_streaming_link, from /stream (bot.py:141-148) or
\* from the stream_ button (bot.py:217-219); url_ok = FALSE:
\* generate_streaming_url came back with "" (wasabi_storage.py:267-269, 247-249)
generate_streaming_link(path, requester, f, url_ok) ==
    /\ reply' = [op |-> "stream", via |-> "bot", path |-> path, user |-> requester,
                 file_id |-> f,
                 result |-> IF f \notin DOMAIN files THEN "NotFound"
                            ELSE IF ~streamable(files[f].mime_type) THEN "NotStreamable"
                            ELSE IF url_ok THEN "Url" ELSE "NoUrl"]
    /\ UNCHANGED <<now, files, links, objects, sessions, nextFileId, up, req,
                   redirects, dl, shares, users, callers>>

\* web_app.py:58-69 stream_file: GET /stream/{file_id}; the 404 "File not
\* found" is result NotFound, the RedirectResponse is result Url
stream_file(f, url_ok) ==
    /\ reply' = [op |-> "stream", via |-> "web", path |-> "GET", user |-> 0,
                 file_id |-> f,
                 result |-> IF f \notin DOMAIN files \/ ~files[f].is_public
                            THEN "NotFound"
                            ELSE IF url_ok THEN "Url" ELSE "NoUrl"]
    /\ UNCHANGED <<now, files, links, objects, sessions, nextFileId, up, req,
                   redirects, dl, shares, users, callers>>

\* web_app.py:106-114 api_get_file: GET /api/file/{file_id}; the 404 "File not
\* found" is result NotFound, the returned row is result Row
api_get_file(f) ==
    /\ reply' = [op |-> "api_file", via |-> "web", path |-> "GET", user |-> 0,
                 file_id |-> f,
                 result |-> IF get_file(files, f) = {} THEN "NotFound"
                            ELSE IF \E row \in get_file(files, f) : ~row.is_public
                            THEN "NotFound"
                            ELSE "Row"]
    /\ UNCHANGED <<now, files, links, objects, sessions, nextFileId, up, req,
                   redirects, dl, shares, users, callers>>

\* ================================================================== search
\* the characters of the names, tags and queries used
chars(str) ==
    CASE str = "" -> <<>>
      [] str = "b" -> <<"b">>
      [] str = "B" -> <<"B">>
      [] str = "_" -> <<"_">>
      [] str = "a_c" -> <<"a", "_", "c">>
      [] str = "abc" -> <<"a", "b", "c">>
      [] str = "mp4" -> <<"m", "p", "4">>
      [] str = "movie.mp4" -> <<"m", "o", "v", "i", "e", ".", "m", "p", "4">>
      [] str = "unnamed" -> <<"u", "n", "n", "a", "m", "e", "d">>

SearchNames == {"movie.mp4", "abc", "a_c"}
Queries == {"", "b", "B", "_", "a_c", "mp4"}
\* bot.py:351 leaves limit at its default (database.py:131); web_app.py:98
\* takes it from the request
DefaultLimit == 20
Limits == {1, 50}

\* ILIKE folds case
lower(c) ==
    CASE c = "B" -> "b"
      [] c = "N" -> "n"
      [] OTHER -> c

\* PostgreSQL LIKE: % is any run of characters, _ is any one character
RECURSIVE like(_, _)
like(str, pattern) ==
    IF pattern = <<>> THEN str = <<>>
    ELSE IF Head(pattern) = "%"
         THEN like(str, Tail(pattern)) \/ (str # <<>> /\ like(Tail(str), pattern))
    ELSE /\ str # <<>>
         /\ (Head(pattern) = "_" \/ lower(Head(pattern)) = lower(Head(str)))
         /\ like(Tail(str), Tail(pattern))

\* database.py:138,141: original_name ILIKE f"%{query}%"
name_matches(name, query) == like(chars(name), <<"%">> \o chars(query) \o <<"%">>)

\* database.py:134: if user_id:
has_identity(user_id) == user_id # NULL /\ user_id # 0

\* database.py:137-138 / 145-146: the WHERE clause
search_where(row, query, user_id) ==
    /\ IF has_identity(user_id) THEN row.uploader_id = user_id \/ row.is_public
                                ELSE row.is_public
    /\ (name_matches(row.original_name, query) \/ query \in row.tags)

\* ORDER BY upload_date DESC: the orders the rows can come in (rows of equal
\* upload_date in either order)
newest_first(fs, ids) ==
    { seq \in [1..Cardinality(ids) -> ids] :
        /\ \A i, j \in 1..Cardinality(ids) : i # j => seq[i] # seq[j]
        /\ \A i, j \in 1..Cardinality(ids) :
              i < j => fs[seq[i]].upload_date >= fs[seq[j]].upload_date }

\* LIMIT n
first_rows(seq, n) == SubSeq(seq, 1, IF Len(seq) < n THEN Len(seq) ELSE n)

\* database.py:131-150 search_files: the file ids of the rows, in each order
\* the SELECT can return them
search_files(fs, query, user_id, limit) ==
    { first_rows(seq, limit) :
        seq \in newest_first(fs, { f \in DOMAIN fs : search_where(fs[f], query, user_id) }) }

\* bot.py:349-363 search_files, from /search (bot.py:123-130)
bot_search_files(requester, query) ==
    /\ \E rows \in search_files(files, query, requester, DefaultLimit) :
          reply' = [op |-> "search", via |-> "bot", user |-> requester,
                    query |-> query, limit |-> DefaultLimit, rows |-> rows]
    /\ UNCHANGED <<now, files, links, objects, sessions, nextFileId, up, req,
                   redirects, dl, shares, users, callers>>

\* web_app.py:97-104 api_list_files: GET /api/files?search=..&limit=..
api_list_files(limit, search) ==
    /\ \E rows \in search_files(files, search, NULL, limit) :
          reply' = [op |-> "search", via |-> "web", user |-> NULL,
                    query |-> search, limit |-> limit, rows |-> rows]
    /\ UNCHANGED <<now, files, links, objects, sessions, nextFileId, up, req,
                   redirects, dl, shares, users, callers>>

\* =================================================================== users
\* Telegram's user.username (None when the account has none)
UserNames == {"ann", NoName}
IdleCall == [pc |-> "idle", file_id |-> 0]

\* database.py:57-67: a row of users; is_premium and storage_used as stored
user_row(username, first_name, last_name, premium, used, t) ==
    [ username |-> username, first_name |-> first_name, last_name |-> last_name,
      is_premium |-> premium, storage_used |-> used, storage_limit |-> StorageLimit,
      joined_date |-> t, last_active |-> t ]

\* ========================================================== Database calls
\* the methods of Database that write, called with any arguments
\* database.py:85-108 save_file
db_save_file(b, file_id, file_name, size, user) ==
    /\ LET saved == save_file(files, b, file_id, file_name, NoMime, size, user, now)
       IN  /\ files' = saved.files
           /\ reply' = [op |-> "save_file", file_id |-> file_id, user |-> user,
                        name |-> file_name,
                        result |-> IF saved.raised THEN "raised" ELSE "saved"]
    /\ UNCHANGED <<now, links, objects, sessions, nextFileId, up, req, redirects, dl,
                   shares, users, callers>>

\* database.py:152-158 increment_download_count: returns None, whether or not
\* the UPDATE found a row
db_increment_download_count(file_id) ==
    /\ file_id \in DOMAIN files => files[file_id].download_count < MaxDbCount
    /\ files' = increment_download_count(files, file_id)
    /\ UNCHANGED <<now, links, objects, sessions, nextFileId, up, req, redirects, dl,
                   shares, reply, users, callers>>

\* database.py:154: a call of increment_download_count waits for a connection
\* of the pool
increment_call(c, file_id) ==
    /\ callers[c].pc = "idle"
    /\ callers' = [callers EXCEPT ![c] = [pc |-> "acquire", file_id |-> file_id]]
    /\ UNCHANGED <<now, files, links, objects, sessions, nextFileId, up, req,
                   redirects, dl, shares, reply, users>>

\* database.py:155-158: the UPDATE, one statement, then the call returns
increment_update(c) ==
    /\ callers[c].pc = "acquire"
    /\ files' = increment_download_count(files, callers[c].file_id)
    /\ callers' = [callers EXCEPT ![c].pc = "returned"]
    /\ UNCHANGED <<now, links, objects, sessions, nextFileId, up, req, redirects, dl,
                   shares, reply, users>>

\* database.py:178-190 share_file; the INSERT raises when file_id has no row
\* in files (REFERENCES files(file_id), database.py:46)
db_share_file(file_id, shared_with_user_id, shared_by_user_id) ==
    /\ Cardinality(DOMAIN shares) < MaxShares
    /\ shares' = IF file_id \in DOMAIN files
                 THEN shares @@ (Cardinality(DOMAIN shares) + 1 :>
                        share_row(file_id, shared_with_user_id, shared_by_user_id,
                                  "read", NULL))
                 ELSE shares
    /\ UNCHANGED <<now, files, links, objects, sessions, nextFileId, up, req,
                   redirects, dl, reply, users, callers>>

\* database.py:205-218 create_download_link; the INSERT raises when file_id
\* has no row in files (REFERENCES files(file_id), database.py:76)
db_create_download_link(file_id, created_by) ==
    /\ Cardinality(DOMAIN links) < MaxLinks
    /\ links' = IF file_id \in DOMAIN files
                THEN create_download_link(links, Cardinality(DOMAIN links) + 1,
                                          file_id, created_by, NULL, -1)
                ELSE links
    /\ UNCHANGED <<now, files, objects, sessions, nextFileId, up, req, redirects, dl,
                   shares, reply, users, callers>>

\* database.py:235-241 increment_link_access
db_increment_link_access(link_id) ==
    /\ link_id \in DOMAIN links => links[link_id].access_count < MaxDbCount
    /\ links' = increment_link_access(links, link_id)
    /\ UNCHANGED <<now, files, objects, sessions, nextFileId, up, req, redirects, dl,
                   shares, reply, users, callers>>

\* database.py:160-176 save_user: INSERT ... ON CONFLICT (user_id) DO UPDATE SET
\* username, first_name, last_name, last_active
save_user_replace(us, user_id, username, first_name, last_name, t) ==
    (user_id :> user_row(username, first_name, last_name, FALSE, B(0), t)) @@ us

save_user(us, user_id, username, first_name, last_name, t) ==
    IF user_id \in DOMAIN us
    THEN [us EXCEPT ![user_id] = [@ EXCEPT !.username = username,
                                          !.first_name = first_name,
                                          !.last_name = last_name,
                                          !.last_active = t]]
    ELSE us @@ (user_id :> user_row(username, first_name, last_name, FALSE, B(0), t))

\* bot.py:229-237 / simple_bot.py:41-50 save_user_info, from /start
\* (bot.py:32-34, simple_bot.py:67-70)
save_user_info(user_id, username, first_name, last_name) ==
    /\ users' = save_user(users, user_id, username, first_name, last_name, now)
    /\ UNCHANGED <<now, files, links, objects, sessions, nextFileId, up, req,
                   redirects, dl, shares, reply, callers>>

\* ==================================================================== Init
\* The database and the bucket outlive the processes: at start the tables hold
\* one file row (is_public as stored) with its object, and one download link
\* on it as Database.create_download_link inserts them (access_count 0).
StoredRow(file_id, name, user, pub, mime, tags, t) ==
    [ wasabi_key |-> wasabi_key("bot", file_id, name), original_name |-> name,
      file_size |-> B(ChunkSize), mime_type |-> mime, uploader_id |-> user,
      upload_date |-> t, download_count |-> 0, is_public |-> pub, tags |-> tags ]

StoredFile(pub, mime) == StoredRow(1, "movie.mp4", 1, pub, mime, {}, 0)

\* a share of the stored file as Database.share_file inserts it; expires_at
\* is the argument of database.py:180
StoredShare(exp) == share_row(1, 2, 1, "read", exp)

StoredUser(premium, used) == user_row("ann", "Ann", NoName, premium, used, 0)

StoredLink(exp, max) ==
    [ file_id |-> 1, created_by |-> 1, expires_at |-> exp,
      access_count |-> 0, max_access |-> max ]

NoReply == [op |-> "none", user |-> 0, file_id |-> 0, result |-> "none"]

InitTables(fss, lss, sss, uss) ==
    /\ now = 0
    /\ users \in uss
    /\ files \in fss
    /\ links \in lss
    /\ shares \in sss
    /\ objects = { files[f].wasabi_key : f \in DOMAIN files }
    /\ sessions = <<>>
    /\ nextFileId = Cardinality(DOMAIN files) + 1
    /\ up = IdleUp
    /\ req = [r \in 1..NReq |-> IdleReq]
    /\ redirects = [l \in LinkIds |-> 0]
    /\ dl = [bot |-> "bot", path |-> "command", user |-> 1, file_id |-> 1,
             result |-> "none"]
    /\ reply = NoReply
    /\ callers = [c \in 1..NCalls |-> IdleCall]

InitWith(pubs, exps, maxs, sexps, mimes) ==
    InitTables({ (1 :> StoredFile(pub, mime)) : pub \in pubs, mime \in mimes },
               { (1 :> StoredLink(exp, max)) : exp \in exps, max \in maxs },
               { (1 :> StoredShare(exp)) : exp \in sexps },
               { (1 :> StoredUser(FALSE, B(0))) })

Init == InitWith(BOOLEAN, {NULL, 2}, {-1, 1, 2}, {NULL}, {<<"video", "mp4">>})

\* the same start with the rows fixed that the checked handlers do not read
InitUpload == InitWith({TRUE}, {NULL}, {-1}, {NULL}, {<<"video", "mp4">>})
InitLink == InitWith({TRUE}, {NULL, 2}, {-1, 1, 2}, {NULL}, {<<"video", "mp4">>})
InitDownload == InitWith(BOOLEAN, {NULL}, {-1}, {NULL}, {<<"video", "mp4">>})
InitTempLink == InitWith(BOOLEAN, {2}, {1}, {NULL}, {<<"video", "mp4">>})
\* two stored files, one of each user, with the names, tags and dates searched
InitSearch ==
    InitTables({ (1 :> StoredRow(1, n1, 1, p1, <<"video", "mp4">>, {}, 0)) @@
                 (2 :> StoredRow(2, n2, 2, p2, <<"video", "mp4">>, tg, t2)) :
                   n1 \in SearchNames, n2 \in SearchNames, p1 \in BOOLEAN,
                   p2 \in BOOLEAN, tg \in {{}, {"b"}}, t2 \in {0, 1} },
               { (1 :> StoredLink(NULL, -1)) }, { (1 :> StoredShare(NULL)) },
               { (1 :> StoredUser(FALSE, B(0))) })
InitDb == InitWith({TRUE}, {NULL}, {-1}, {NULL}, {<<"video", "mp4">>})
InitCount == InitWith(BOOLEAN, {NULL}, {-1}, {NULL}, {<<"video", "mp4">>})
\* the stored user row with is_premium and storage_used as the table holds them
InitUsers ==
    InitTables({ (1 :> StoredFile(TRUE, <<"video", "mp4">>)) },
               { (1 :> StoredLink(NULL, -1)) }, { (1 :> StoredShare(NULL)) },
               { (1 :> StoredUser(premium, used)) :
                   premium \in BOOLEAN, used \in {B(0), B(ChunkSize)} })
\* database.py:18-83 create_tables on a new database: every table is empty
InitFresh == InitTables({<<>>}, {<<>>}, {<<>>}, {<<>>})
InitStream == InitWith(BOOLEAN, {NULL}, {-1}, {NULL}, MimeTypes)
InitShare == InitWith(BOOLEAN, {NULL}, {-1}, {NULL, 1, 2}, {<<"video", "mp4">>})

\* ------------------------------------------------------- specifications
NextUpload ==
    \/ \E b \in Bots, u \in UserIds, f \in Inbound, s \in FileSizes :
          handle_file_start(b, u, f.name, f.mime, s)
    \/ \E ok \in BOOLEAN : handle_file_connect(ok)
    \/ \E ok \in BOOLEAN : handle_file_download(ok)
    \/ \E ok \in BOOLEAN : handle_file_edit_progress(ok)
    \/ \E ok \in BOOLEAN : upload_file_getsize(ok)
    \/ \E ok \in BOOLEAN : single_upload(ok)
    \/ \E ok \in BOOLEAN : multipart_create(ok)
    \/ upload_part_call
    \/ \E ok \in BOOLEAN : multipart_part(ok)
    \/ \E ok \in BOOLEAN : multipart_complete(ok)
    \/ \E ok \in BOOLEAN : multipart_abort(ok)
    \/ \E ok \in BOOLEAN : handle_file_save(ok)
    \/ \E ok \in BOOLEAN : handle_file_edit_done(ok)
    \/ \E ok \in BOOLEAN : handle_file_edit_failed(ok)
    \/ handle_file_unlink
    \/ handle_file_except

NextLink ==
    \/ \E r \in 1..NReq, l \in LinkIds : download_by_link_get(r, l)
    \/ \E r \in 1..NReq : download_by_link_increment(r)
    \/ Tick

\* one resolution at a time: a request is taken only when no other is in flight
NextLinkSeq ==
    \/ \E r \in 1..NReq, l \in LinkIds :
          /\ \A q \in 1..NReq : req[q].pc = "idle"
          /\ download_by_link_get(r, l)
    \/ \E r \in 1..NReq : download_by_link_increment(r)
    \/ Tick

NextTempLink ==
    \/ \E u \in UserIds, f \in FileIds, ok \in BOOLEAN : create_temporary_link(u, f, ok)
    \/ NextLink

NextShare ==
    \/ \E u \in UserIds, f \in FileIds, t \in UserIds, ok \in BOOLEAN :
          share_file(u, f, t, ok)
    \/ \E path \in {"command", "callback"}, u \in UserIds : list_shared_files(path, u)
    \/ Tick

NextStream ==
    \/ \E path \in {"command", "callback"}, u \in UserIds, f \in FileIds,
          url_ok \in BOOLEAN : generate_streaming_link(path, u, f, url_ok)
    \/ \E f \in FileIds, url_ok \in BOOLEAN : stream_file(f, url_ok)

NextSearch ==
    \/ \E u \in UserIds, q \in Queries : bot_search_files(u, q)
    \/ \E n \in Limits, q \in Queries : api_list_files(n, q)

NextDb ==
    \/ \E f \in FileIds, u \in UserIds : db_save_file("bot", f, NoName, B(0), u)
    \/ \E f \in FileIds : db_increment_download_count(f)
    \/ \E f \in FileIds : db_share_file(f, 2, 1)
    \/ \E f \in FileIds : db_create_download_link(f, 1)
    \/ \E l \in LinkIds : db_increment_link_access(l)
    \/ \E u \in UserIds : save_user_info(u, NoName, "Ann", NoName)

NextCount ==
    \/ \E c \in 1..NCalls, f \in FileIds : increment_call(c, f)
    \/ \E c \in 1..NCalls : increment_update(c)

NextUsers ==
    \/ \E u \in UserIds, n \in UserNames, l \in {"Lee", NoName} :
          save_user_info(u, n, "Ann", l)
    \/ Tick

NextDownload ==
    \/ \E path \in {"command", "callback"}, u \in UserIds, f \in FileIds,
          url_ok \in BOOLEAN : generate_download_link(path, u, f, url_ok)
    \/ \E u \in UserIds, f \in FileIds, url_ok \in BOOLEAN :
          simple_bot_download(u, f, url_ok)

\* the operations that write or read is_public, on the rows of user 1
NextFresh ==
    \/ \E b \in Bots, f \in FileIds : db_save_file(b, f, "movie.mp4", B(0), 1)
    \/ \E path \in {"command", "callback"}, u \in UserIds, f \in FileIds,
          url_ok \in BOOLEAN : generate_download_link(path, u, f, url_ok)
    \/ \E u \in UserIds, f \in FileIds, url_ok \in BOOLEAN :
          simple_bot_download(u, f, url_ok)
    \/ \E f \in FileIds, url_ok \in BOOLEAN : stream_file(f, url_ok)
    \/ \E f \in FileIds : api_get_file(f)

Next == NextUpload \/ NextTempLink \/ NextShare \/ NextStream \/ NextSearch \/ NextDb
           \/ NextCount \/ NextUsers \/ NextDownload \/ NextFresh

Spec == Init /\ [][Next]_vars
SpecUpload == InitUpload /\ [][NextUpload]_vars
SpecLink == InitLink /\ [][NextLink]_vars
SpecLinkSeq == InitLink /\ [][NextLinkSeq]_vars
SpecDownload == InitDownload /\ [][NextDownload]_vars
SpecTempLink == InitTempLink /\ [][NextTempLink]_vars
SpecShare == InitShare /\ [][NextShare]_vars
SpecStream == InitStream /\ [][NextStream]_vars
SpecSearch == InitSearch /\ [][NextSearch]_vars
SpecDb == InitDb /\ [][NextDb]_vars
SpecCount == InitCount /\ [][NextCount]_vars
SpecUsers == InitUsers /\ [][NextUsers]_vars
SpecFresh == InitFresh /\ [][NextFresh]_vars

\* ================================================================ claims
\* session i belongs to an upload_file call that has not returned yet
in_progress(i) == i = up.upload_id /\ up.pc \in {"mp_part", "mp_part_wait", "mp_abort"}

\* C1 (as stated): once create_multipart_upload succeeded, a failing upload_part
\* or complete_multipart_upload leads to an abort call for that upload id and to
\* the result False, and no session is open once upload_file has returned.
C1_NoSessionLeftOpen ==
    \A i \in 1..Len(sessions) :
        \/ in_progress(i)
        \/ /\ sessions[i].state \in {"completed", "aborted"}
           /\ (i = up.upload_id /\ up.failed \in {"part", "complete"}) =>
                 (sessions[i].abort_calls = 1 /\ ~up.success)

\* C1 (amended): the abort call is made exactly once and the result is False;
\* the session is completed, or aborted, or its one abort call itself failed.
C1_AbortCalledOnFailure ==
    \A i \in 1..Len(sessions) :
        \/ in_progress(i)
        \/ /\ \/ sessions[i].state = "completed" /\ sessions[i].abort_calls = 0
              \/ sessions[i].state = "aborted" /\ sessions[i].abort_calls = 1
              \/ /\ sessions[i].state = "open"
                 /\ sessions[i].abort_calls = 1
                 /\ sessions[i].abort_failed
           /\ (i = up.upload_id /\ up.failed \in {"part", "complete"}) =>
                 (sessions[i].abort_calls = 1 /\ ~up.success)
           /\ (i = up.upload_id /\ sessions[i].state = "completed") => up.success

C1_Witness ==
    /\ up.pc = "uploaded"
    /\ up.failed = "part"
    /\ up.upload_id # 0
    /\ sessions[up.upload_id].state = "aborted"
    /\ Len(up.parts) = 1

\* C2: when the upload handler ends with a failure outcome, no FileRecord has
\* the generated file id and the bucket holds no complete object under the key.
C2_FailureLeavesNothing ==
    (up.pc = "returned" /\ up.outcome = "failure") =>
        (up.file_id \notin DOMAIN files /\ up_key \notin objects)

\* C3: when the handler returns after the temporary file was created, the
\* temporary file has been removed.
C3_TempFileRemoved ==
    (up.pc = "returned" /\ up.temp # "none") => up.temp = "removed"

\* C9: a FileRecord is inserted only by the run that generated its file id,
\* only after upload_file returned True for its key (the object is complete in
\* the bucket), and one at a time; a run whose transfer failed or is not over
\* has no FileRecord.
C9_RecordOnlyAfterTransfer ==
    /\ [](\A f \in DOMAIN files : files[f].wasabi_key \in objects)
    /\ [](up.file_id \in DOMAIN files =>
             (up.success /\ up.pc \in {"edit_done", "unlink", "except", "returned"}))
    /\ [][ /\ Cardinality(DOMAIN files' \ DOMAIN files) <= 1
           /\ \A f \in DOMAIN files' \ DOMAIN files :
                 /\ f = up.file_id
                 /\ up.pc = "uploaded" /\ up.success
                 /\ files'[f].wasabi_key = up_key
                 /\ up_key \in objects ]_vars

C9_Witness ==
    /\ up.file_id \in DOMAIN files
    /\ up.upload_id # 0
    /\ sessions[up.upload_id].state = "completed"

\* C10: no exception leaves upload_file; it returns False whenever the size
\* lookup, the single-shot call or a multipart step (create, part, complete,
\* abort) failed, and True only when the single-shot call or the multipart
\* completion succeeded.
C10_UploadFileNeverRaises ==
    /\ ~up.raised
    /\ up.pc = "uploaded" =>
         /\ up.success <=> up.failed = "none"
         /\ up.success => /\ up_key \in objects
                          /\ up.upload_id # 0 => sessions[up.upload_id].state = "completed"
         /\ (up.upload_id # 0 /\ sessions[up.upload_id].abort_failed) => ~up.success

C10_Witness ==
    /\ up.pc = "uploaded"
    /\ ~up.success
    /\ up.upload_id # 0
    /\ sessions[up.upload_id].abort_failed

\* the links with a finite max_access
bounded(l) == l \in DOMAIN links /\ links[l].max_access # -1

\* the requests that passed the eligibility test of l and have not incremented
in_flight(l) == { r \in 1..NReq : req[r].pc = "increment" /\ req[r].link_id = l }

\* request r leaves web_app.py:41 in this step with link id l
resolves(r) == req[r].pc = "idle" /\ req'[r] # req[r]

\* C4: the eligibility test and the increment of GET /d/{link_id} are separate
\* steps: requests that all passed the test increment one after the other, so
\* access_count exceeds max_access, by at most the number of requests that can
\* be in flight together minus one, and every increment is followed by a
\* redirect.
C4_OvershootUnderInterleaving ==
    \A l \in LinkIds :
        /\ l \in DOMAIN links => redirects[l] = links[l].access_count
        /\ bounded(l) =>
              links[l].access_count + Cardinality(in_flight(l))
                  <= links[l].max_access + NReq - 1

C4_Witness ==
    \E l \in LinkIds :
        /\ bounded(l)
        /\ links[l].access_count > links[l].max_access
        /\ redirects[l] > links[l].max_access

\* C5: with one resolution at a time, a resolution of a non-expired link with
\* max_access = m >= 1 succeeds and adds one to access_count while
\* access_count < m, and is answered 404 with access_count unchanged once
\* access_count = m; access_count <= max_access in every state.
C5_SequentialResolutions ==
    /\ [](\A l \in LinkIds : bounded(l) =>
             /\ links[l].access_count <= links[l].max_access
             /\ redirects[l] <= links[l].max_access)
    /\ [][\A r \in 1..NReq :
            /\ resolves(r) =>
                 LET l == req'[r].link_id IN
                   (bounded(l) /\ links[l].max_access >= 1
                      /\ (links[l].expires_at = NULL \/ links[l].expires_at > now)) =>
                     /\ links[l].access_count < links[l].max_access
                           => req'[r].pc = "increment"
                     /\ links[l].access_count = links[l].max_access
                           => (req'[r].status = 404 /\ req'[r].pc = "idle"
                               /\ links' = links)
            /\ (req[r].pc = "increment" /\ req'[r].pc = "idle") =>
                 /\ links'[req[r].link_id].access_count
                       = links[req[r].link_id].access_count + 1
                 /\ req'[r].status = 307 ]_vars

C5_Witness ==
    \E r \in 1..NReq :
        /\ req[r].status = 404
        /\ req[r].pc = "idle"
        /\ req[r].link_id = 1
        /\ links[1].max_access = 2
        /\ links[1].access_count = 2
        /\ redirects[1] = 2
        /\ (links[1].expires_at = NULL \/ links[1].expires_at > now)

\* C6: get_file_by_download_link(link_id) returns a row exactly when the link
\* exists, its expires_at is NULL or later than the current time, and its
\* max_access is -1 or its access_count is below max_access.
C6_ResolvableIff ==
    [][\A r \in 1..NReq :
         resolves(r) =>
           LET l == req'[r].link_id IN
             (req'[r].pc = "increment" /\ req'[r].file_id \in DOMAIN files)
               <=> /\ l \in DOMAIN links
                   /\ (links[l].expires_at = NULL \/ links[l].expires_at > now)
                   /\ (links[l].max_access = -1
                         \/ links[l].access_count < links[l].max_access) ]_vars

\* an expired link that was never used is answered 404
C6_Witness ==
    \E r \in 1..NReq :
        /\ req[r].status = 404
        /\ req[r].link_id = 1
        /\ links[1].access_count = 0
        /\ links[1].expires_at # NULL
        /\ links[1].expires_at <= now

C8_CountOncePerResolution ==
    [][\A f \in DOMAIN files :
          files'[f].download_count =
              files[f].download_count
                + (IF dl'.result = "Url" /\ dl'.file_id = f THEN 1 ELSE 0)]_vars

\* x <= 100 MiB, written on the two parts of a byte count
at_most_chunk(x) == x.mib < 100 \/ (x.mib = 100 /\ x.b = 0)

\* C11: upload_file runs the single-shot strategy for a size <= 100 MiB (0 and
\* exactly 100 MiB included) and the multipart strategy for a size > 100 MiB,
\* and one strategy only: a multipart session exists for the key of the run
\* only when the size is > 100 MiB.
C11_StrategyBySize ==
    /\ up.pc = "single" => at_most_chunk(up.size)
    /\ up.pc \in {"mp_create", "mp_part", "mp_part_wait", "mp_abort"} => ~at_most_chunk(up.size)
    /\ up.failed = "single" => at_most_chunk(up.size)
    /\ up.failed \in {"create", "part", "complete"} => ~at_most_chunk(up.size)
    /\ up.upload_id # 0 => ~at_most_chunk(up.size)
    /\ (up.pc = "uploaded" /\ up.success) =>
          (up.upload_id = 0 <=> at_most_chunk(up.size))
    /\ \A i \in 1..Len(sessions) :
          (up.file_id # 0 /\ sessions[i].key = up_key) =>
              (i = up.upload_id /\ ~at_most_chunk(up.size))

C11_Witness ==
    /\ up.pc = "uploaded"
    /\ up.success
    /\ up.upload_id = 0
    /\ up.size = [mib |-> 100, b |-> 0]

\* the sum of the lengths of the parts the store received
RECURSIVE SumSizes(_)
SumSizes(ps) ==
    IF ps = <<>> THEN [mib |-> 0, b |-> 0]
    ELSE SizeAdd(SumSizes(SubSeq(ps, 1, Len(ps) - 1)), ps[Len(ps)].Size)

\* ceil(S / 100 MiB)
parts_needed(S) == S.mib \div 100 + (IF S.mib % 100 > 0 \/ S.b > 0 THEN 1 ELSE 0)

\* C12: a completed multipart upload of a file of size S has ceil(S / C) parts,
\* C = 100 MiB; every part but the last has C bytes, the last has
\* S - (N-1)*C bytes (between 1 and C), the lengths add up to S, and
\* S = 250 MiB gives parts of 100, 100 and 50 MiB.
C12_PartSizes ==
    (up.upload_id # 0 /\ sessions[up.upload_id].state = "completed") =>
        LET ps == sessions[up.upload_id].received
            N == Len(ps)
            S == up.size
        IN /\ N = parts_needed(S)
           /\ \A i \in 1..(N - 1) : ps[i].Size = [mib |-> 100, b |-> 0]
           /\ ps[N].Size = [mib |-> S.mib - (N - 1) * 100, b |-> S.b]
           /\ ps[N].Size # [mib |-> 0, b |-> 0]
           /\ at_most_chunk(ps[N].Size)
           /\ SumSizes(ps) = S
           /\ S = [mib |-> 250, b |-> 0] =>
                 [i \in 1..N |-> ps[i].Size.mib] = <<100, 100, 50>>

C12_Witness ==
    /\ up.upload_id # 0
    /\ sessions[up.upload_id].state = "completed"
    /\ up.size = [mib |-> 250, b |-> 0]
    /\ Len(sessions[up.upload_id].received) = 3

\* C13: the list given to complete_multipart_upload has the part numbers
\* 1, 2, ..., N in this order, and entry k carries the ETag the store answered
\* to the upload_part call made with part number k.
C13_OrderedParts ==
    \A i \in 1..Len(sessions) :
        sessions[i].state = "completed" =>
            LET cp == sessions[i].completed_with
                rc == sessions[i].received
            IN /\ Len(cp) = Len(rc)
               /\ \A k \in 1..Len(cp) :
                     /\ cp[k].PartNumber = k
                     /\ \E j \in 1..Len(rc) : rc[j].PartNumber = k
                                              /\ rc[j].ETag = cp[k].ETag
                     /\ \A j \in 1..Len(rc) :
                           rc[j].PartNumber = k => rc[j].ETag = cp[k].ETag

C13_Witness ==
    \E i \in 1..Len(sessions) :
        /\ sessions[i].state = "completed"
        /\ Len(sessions[i].completed_with) = 41

\* the size is > 4 GiB, written on the two parts of a byte count
over_4GiB(x) == x.mib > 4096 \/ (x.mib = 4096 /\ x.b > 0)

\* C14: an inbound file whose declared size exceeds 4 GiB is rejected before
\* any object-store call, any database call and any temporary file; a file of
\* exactly 4 GiB is not rejected.
C14_OversizeRejectedFirst ==
    /\ [](up.pc \notin {"idle", "returned"} => ~over_4GiB(up.size))
    /\ [](up.outcome = "rejected" =>
             /\ over_4GiB(up.size)
             /\ up.pc = "returned" /\ up.temp = "none" /\ up.file_id = 0)
    /\ [][(up.pc \in {"idle", "returned"} /\ up'.pc # "idle" /\ up' # up) =>
             IF over_4GiB(up'.size)
             THEN /\ up'.outcome = "rejected"
                  /\ UNCHANGED <<files, links, objects, sessions, nextFileId>>
             ELSE up'.pc \in {"connect", "download"} /\ up'.outcome = "none"]_vars

C14_Witness ==
    /\ up.outcome = "rejected"
    /\ up.size = [mib |-> 4096, b |-> 1]

\* --- C15
never_existed(l) == l \notin DOMAIN links
expired(l) == l \in DOMAIN links /\ links[l].expires_at # NULL /\ links[l].expires_at <= now
exhausted(l) ==
    l \in DOMAIN links /\ links[l].max_access # -1
                       /\ links[l].access_count >= links[l].max_access

\* C15: GET /d/{link_id} answers a link id that never existed, an expired
\* link and an exhausted link with HTTP 404 and one and the same detail text,
\* and such a request increments no counter and sends no redirect URL.
C15_SameNotFound ==
    /\ [](\A r, q \in 1..NReq :
            req[r].status = 404 /\ req[q].status = 404 => req[r].detail = req[q].detail)
    /\ [][\A r \in 1..NReq, l \in LinkIds :
            ( /\ req[r].pc = "idle" /\ req'[r] # req[r] /\ req'[r].link_id = l
              /\ (never_existed(l) \/ expired(l) \/ exhausted(l)) )
            => /\ req'[r].pc = "idle" /\ req'[r].status = 404
               /\ links' = links /\ redirects' = redirects /\ files' = files]_vars

\* a never existing link id and an expired or exhausted link both answered
C15_Witness ==
    \E r, q \in 1..NReq :
        /\ req[r].status = 404 /\ never_existed(req[r].link_id)
        /\ req[q].status = 404 /\ exhausted(req[q].link_id)
        /\ redirects[req[q].link_id] > 0

C15_WitnessExpired ==
    \E r, q \in 1..NReq :
        /\ req[r].status = 404 /\ never_existed(req[r].link_id)
        /\ req[q].status = 404 /\ expired(req[q].link_id) /\ ~exhausted(req[q].link_id)

\* --- C16
creates_link == DOMAIN links' # DOMAIN links
templink_step == reply' # reply /\ reply'.op = "templink"

\* C16: create_temporary_link creates a download link only for the uploader
\* of the file: NotFound and nothing created when the file does not exist,
\* Denied and nothing created when the requester is not the uploader, public
\* file or not; so every link has created_by = uploader_id of its file. A link
\* row, once there, changes only by access_count + 1 and is never deleted.
C16_LinkOnlyByUploader ==
    /\ [](\A l \in DOMAIN links :
            /\ links[l].file_id \in DOMAIN files
            /\ links[l].created_by = files[links[l].file_id].uploader_id)
    /\ [][templink_step =>
            /\ (reply'.file_id \notin DOMAIN files) = (reply'.result = "NotFound")
            /\ ( /\ reply'.file_id \in DOMAIN files
                 /\ files[reply'.file_id].uploader_id # reply'.user )
               => reply'.result = "Denied"
            /\ reply'.result \in {"NotFound", "Denied"} => links' = links
            /\ creates_link = (reply'.result = "Link")
            /\ creates_link =>
                 /\ DOMAIN links' = DOMAIN links \cup {reply'.link_id}
                 /\ links'[reply'.link_id].file_id = reply'.file_id
                 /\ links'[reply'.link_id].created_by = reply'.user]_vars
    /\ [][creates_link => templink_step]_vars
    /\ [][ /\ DOMAIN links \subseteq DOMAIN links'
           /\ \A l \in DOMAIN links :
                 \/ links'[l] = links[l]
                 \/ links'[l] = [links[l] EXCEPT !.access_count = @ + 1] ]_vars

\* the uploader has created a link, and another user was then denied one on
\* the same file while it is public
C16_Witness ==
    /\ reply.op = "templink" /\ reply.result = "Denied"
    /\ reply.file_id \in DOMAIN files /\ files[reply.file_id].is_public
    /\ \E l \in DOMAIN links :
          /\ links[l].max_access = TempLinkMaxAccess
          /\ links[l].file_id = reply.file_id
          /\ links[l].access_count > 0

\* --- C17
\* C17: every share row refers to an existing file row and its
\* shared_by_user_id is that file's uploader_id; the share operation creates no
\* row when the file does not exist or the requester is not the uploader.
C17_ShareOnlyByUploader ==
    /\ [](\A i \in DOMAIN shares :
            /\ shares[i].file_id \in DOMAIN files
            /\ shares[i].shared_by_user_id = files[shares[i].file_id].uploader_id)
    /\ [][ (reply' # reply /\ reply'.op = "share"
              /\ ( \/ reply'.file_id \notin DOMAIN files
                   \/ files[reply'.file_id].uploader_id # reply'.user ))
           => shares' = shares ]_vars
    /\ [][ shares' # shares =>
             /\ reply' # reply /\ reply'.op = "share" /\ reply'.result = "Shared"
             /\ reply'.file_id \in DOMAIN files
             /\ files[reply'.file_id].uploader_id = reply'.user ]_vars

\* the uploader has shared the file, and another user was then refused to
\* share the same file while it is public
C17_Witness ==
    /\ reply.op = "share" /\ reply.result = "Denied"
    /\ reply.file_id \in DOMAIN files /\ files[reply.file_id].is_public
    /\ Cardinality(DOMAIN shares) > 1

\* --- C18
\* C18: get_shared_files(B) contains a file exactly when a share row of that
\* file has shared_with_user_id = B and expires_at null or later than now; the
\* list of a user is that result, an expired share is left out without error.
C18_SharedListExact ==
    /\ [](\A u \in UserIds \cup {BotUserId}, f \in FileIds :
            (\E row \in get_shared_files(shares, files, u, now) : row.file_id = f)
            = (\E i \in DOMAIN shares :
                 /\ shares[i].file_id = f /\ f \in DOMAIN files
                 /\ shares[i].shared_with_user_id = u
                 /\ (shares[i].expires_at = NULL \/ now < shares[i].expires_at)))
    /\ [][ (reply' # reply /\ reply'.op = "shared") =>
             \A f \in FileIds :
               (\E row \in reply'.rows : row.file_id = f)
               = (\E i \in DOMAIN shares :
                    /\ shares[i].file_id = f /\ f \in DOMAIN files
                    /\ shares[i].shared_with_user_id = reply'.for_user
                    /\ (shares[i].expires_at = NULL \/ now < shares[i].expires_at)) ]_vars

\* user 2 is answered an empty list exactly at the expiry of the only share
\* made to them
C18_Witness ==
    /\ reply.op = "shared" /\ reply.for_user = 2 /\ reply.rows = {}
    /\ \E i \in DOMAIN shares :
          shares[i].shared_with_user_id = 2 /\ shares[i].expires_at = now

\* a share made by the command shows in the list of its target
C18_WitnessListed ==
    /\ reply.op = "shared"
    /\ \E row \in reply.rows : row.share_id > 1 /\ shares[row.share_id].expires_at = NULL

\* --- C19
\* C19: the streaming-link operation answers NotFound when the file id has no
\* file row, NotStreamable when the row's mime_type is absent or starts with
\* neither video/ nor audio/ (application/pdf), and a streaming URL otherwise
\* (video/mp4); it changes no counter.
C19_StreamingLinkByMime ==
    [][ (reply' # reply /\ reply'.op = "stream") =>
          /\ reply'.result =
               ( IF reply'.file_id \notin DOMAIN files THEN "NotFound"
                 ELSE IF files[reply'.file_id].mime_type = NoMime THEN "NotStreamable"
                 ELSE IF files[reply'.file_id].mime_type[1] \notin {"video", "audio"}
                      THEN "NotStreamable"
                 ELSE IF reply'.result = "NoUrl" THEN "NoUrl" ELSE "Url" )
          /\ files' = files /\ links' = links /\ shares' = shares ]_vars

\* the same for the bot's operation alone
C19_BotStreamingLinkByMime ==
    [][ (reply' # reply /\ reply'.op = "stream" /\ reply'.via = "bot") =>
          /\ reply'.result =
               ( IF reply'.file_id \notin DOMAIN files THEN "NotFound"
                 ELSE IF files[reply'.file_id].mime_type = NoMime THEN "NotStreamable"
                 ELSE IF files[reply'.file_id].mime_type[1] \notin {"video", "audio"}
                      THEN "NotStreamable"
                 ELSE IF reply'.result = "NoUrl" THEN "NoUrl" ELSE "Url" )
          /\ files' = files /\ links' = links /\ shares' = shares ]_vars

\* --- C20
\* the name contains the query as a substring, letter case ignored
contains(name, query) ==
    \E i \in 0..(Len(chars(name)) - Len(chars(query))) :
        \A j \in 1..Len(chars(query)) :
            lower(chars(name)[i + j]) = lower(chars(query)[j])

eligible(f, query, user) ==
    /\ (user # NULL /\ files[f].uploader_id = user) \/ files[f].is_public
    /\ (contains(files[f].original_name, query) \/ query \in files[f].tags)

\* C20: search_files returns exactly the rows with (uploader_id = user_id or
\* is_public) and (original_name contains the query, case ignored, or the
\* query equals a tag), up to limit of them and the newest first; with no
\* caller identity only public rows, so never another user's private file.
C20_SearchExact ==
    [][ (reply' # reply /\ reply'.op = "search") =>
          LET rows == reply'.rows
              got == { rows[i] : i \in 1..Len(rows) }
              all == { f \in DOMAIN files : eligible(f, reply'.query, reply'.user) }
          IN  /\ got \subseteq all
              /\ Cardinality(got) = Len(rows)
              /\ Len(rows) = (IF Cardinality(all) < reply'.limit
                               THEN Cardinality(all) ELSE reply'.limit)
              /\ \A i, j \in 1..Len(rows) :
                    i < j => files[rows[i]].upload_date >= files[rows[j]].upload_date
              /\ \A f \in all \ got, g \in got :
                    files[f].upload_date <= files[g].upload_date ]_vars

\* the part on visibility alone: no private file of another user is returned
C20_NoForeignPrivate ==
    [][ (reply' # reply /\ reply'.op = "search") =>
          \A i \in 1..Len(reply'.rows) :
              \/ files[reply'.rows[i]].is_public
              \/ files[reply'.rows[i]].uploader_id = reply'.user ]_vars

\* --- C21
save_file_step == reply' # reply /\ reply'.op = "save_file"

\* C21: save_file with a file_id that already has a row fails with an error
\* that reaches the caller and leaves the files table as it was: the row is
\* not overwritten and no second row of that file_id appears.
C21_DuplicateIdSurfaced ==
    /\ [][save_file_step =>
            IF reply'.file_id \in DOMAIN files
            THEN reply'.result = "raised" /\ files' = files
            ELSE /\ reply'.result = "saved"
                 /\ DOMAIN files' = DOMAIN files \cup {reply'.file_id}
                 /\ \A f \in DOMAIN files : files'[f] = files[f]]_vars
    /\ [][\A f \in DOMAIN files :
            /\ f \in DOMAIN files'
            /\ files'[f].original_name = files[f].original_name
            /\ files'[f].uploader_id = files[f].uploader_id
            /\ files'[f].wasabi_key = files[f].wasabi_key]_vars

\* a second save_file on the id of a row saved before, for another uploader
C21_Witness ==
    /\ reply.op = "save_file" /\ reply.result = "raised"
    /\ reply.file_id = 2
    /\ files[reply.file_id].uploader_id # reply.user

\* --- C22
returned_for(f) == { c \in 1..NCalls : callers[c].pc = "returned" /\ callers[c].file_id = f }

\* C22: after any interleaving of n increment_download_count calls on an
\* existing file its download_count has grown by exactly n; a call for a file
\* id with no row changes no row and raises no error.
C22_NoLostIncrement ==
    /\ [](\A f \in DOMAIN files : files[f].download_count = Cardinality(returned_for(f)))
    /\ [][\A c \in 1..NCalls :
            (callers[c].pc = "acquire" /\ callers'[c] # callers[c]) =>
               /\ callers'[c].pc = "returned"
               /\ callers[c].file_id \notin DOMAIN files => files' = files]_vars

\* two calls on the stored file and one on a file id with no row have returned
C22_Witness ==
    /\ Cardinality(returned_for(1)) = 2 /\ files[1].download_count = 2
    /\ \E f \in FileIds : f \notin DOMAIN files /\ returned_for(f) # {}

\* --- C23
\* C23: save_user for an identity that has a user row changes only username,
\* first_name, last_name and last_active, leaves is_premium, storage_used,
\* storage_limit and joined_date as they were and adds no second row; for a new
\* identity it inserts exactly one row with the default values.
C23_UpsertTouchesDisplayOnly ==
    [][ /\ DOMAIN users \subseteq DOMAIN users'
        /\ Cardinality(DOMAIN users') <= Cardinality(DOMAIN users) + 1
        /\ \A u \in DOMAIN users :
              /\ users'[u].is_premium = users[u].is_premium
              /\ users'[u].storage_used = users[u].storage_used
              /\ users'[u].storage_limit = users[u].storage_limit
              /\ users'[u].joined_date = users[u].joined_date
              /\ users'[u] # users[u] => users'[u].last_active = now
        /\ \A u \in DOMAIN users' \ DOMAIN users :
              /\ users'[u].is_premium = FALSE
              /\ users'[u].storage_used = B(0)
              /\ users'[u].storage_limit = [mib |-> 2048, b |-> 0]
              /\ users'[u].joined_date = now /\ users'[u].last_active = now ]_vars

\* a premium user with storage in use came back later under another name, and
\* a new user has joined
C23_Witness ==
    /\ users[1].is_premium /\ users[1].storage_used # B(0)
    /\ users[1].last_active > users[1].joined_date
    /\ users[1].username # "ann"
    /\ 2 \in DOMAIN users

\* --- C24
same_but_count(new, old) ==
    [new EXCEPT !.download_count = 0] = [old EXCEPT !.download_count = 0]

\* C24: across every sequence of operations no file, share, link or user row
\* is ever deleted, and every field of a file row other than download_count
\* keeps the value it was created with.
C24_AppendAndIncrement ==
    [][ /\ DOMAIN files \subseteq DOMAIN files'
        /\ DOMAIN shares \subseteq DOMAIN shares'
        /\ DOMAIN links \subseteq DOMAIN links'
        /\ DOMAIN users \subseteq DOMAIN users'
        /\ \A f \in DOMAIN files : same_but_count(files'[f], files[f]) ]_vars

\* every table has grown and both counters have moved
C24_Witness ==
    /\ Cardinality(DOMAIN files) > 1 /\ Cardinality(DOMAIN shares) > 1
    /\ Cardinality(DOMAIN links) > 1 /\ Cardinality(DOMAIN users) > 1
    /\ files[1].download_count > 0 /\ links[1].access_count > 0
    /\ reply.op = "save_file" /\ reply.result = "raised"

C26_BotKeyConvention ==
    [](up.file_id \in DOMAIN files /\ up.bot = "bot" =>
         /\ files[up.file_id].original_name =
                (IF up.name = NoName THEN "unnamed" ELSE up.name)
         /\ files[up.file_id].wasabi_key =
                <<"files", up.file_id, files[up.file_id].original_name>>
         /\ files[up.file_id].wasabi_key \in objects)

\* a step in which the store starts to receive part k of session i
part_starts(i, k) ==
    /\ i \in 1..Len(sessions)
    /\ k \notin sessions[i].in_flight
    /\ k \in sessions'[i].in_flight

\* a step in which complete_multipart_upload is called (it may fail)
complete_called ==
    /\ up.pc = "mp_part"
    /\ up'.pc \in {"uploaded", "mp_abort"}

\* C27: during a multipart upload at most one part transfer is in flight; part
\* k+1 starts only after parts 1..k have returned successfully, and
\* complete_multipart_upload is called only once the parts received make up
\* the whole file, with no transfer in flight and no abort call made.
C27_OnePartInFlight ==
    /\ [](\A i \in 1..Len(sessions) : Cardinality(sessions[i].in_flight) <= 1)
    /\ [][\A i \in 1..Len(sessions), k \in 1..(parts_needed(MaxFileSize) + 1) :
             part_starts(i, k) =>
                /\ sessions[i].in_flight = {}
                /\ Len(sessions[i].received) = k - 1
                /\ \A j \in 1..(k - 1) : sessions[i].received[j].PartNumber = j
                /\ sessions[i].state = "open" /\ sessions[i].abort_calls = 0]_vars
    /\ [][complete_called =>
             /\ sessions[up.upload_id].in_flight = {}
             /\ sessions[up.upload_id].abort_calls = 0
             /\ sessions[up.upload_id].state = "open"
             /\ SumSizes(sessions[up.upload_id].received) = up.size
             /\ Len(sessions[up.upload_id].received) = parts_needed(up.size)]_vars

\* a three-part upload whose second part has returned and whose third part is
\* being transferred
C27_Witness ==
    /\ up.pc = "mp_part_wait"
    /\ up.size = B(250 * MiB)
    /\ sessions[up.upload_id].in_flight = {3}
    /\ Len(sessions[up.upload_id].received) = 2

\* a multipart upload completed after its last part returned
C27_WitnessCompleted ==
    /\ up.pc = "uploaded" /\ up.success
    /\ up.upload_id \in 1..Len(sessions)
    /\ sessions[up.upload_id].state = "completed"
    /\ Len(sessions[up.upload_id].received) = 3

\* the session of the multipart upload the handler is in or has just left
mp_session == sessions[up.upload_id]

\* C28: in a multipart upload given a progress callback, the callback has been
\* invoked once per part the store received, the values are strictly
\* increasing, the latest one is the sum of the sizes of the parts received so
\* far (and no value is ever taken back or rewritten, so the k-th value is the
\* sum of parts 1..k), and after a successful upload it is the file size.
C28_ProgressIsCumulative ==
    /\ []((up.callback /\ up.upload_id \in 1..Len(sessions)) =>
            /\ Len(up.progress) = Len(mp_session.received)
            /\ up.progress # <<>> =>
                   up.progress[Len(up.progress)] = SumSizes(mp_session.received)
            /\ \A k \in 1..(Len(up.progress) - 1) :
                   SizeGT(up.progress[k + 1], up.progress[k])
            /\ (up.pc = "uploaded" /\ up.success) =>
                   up.progress[Len(up.progress)] = up.size)
    /\ [][(up.callback /\ up'.upload_id = up.upload_id /\ up.upload_id # 0) =>
             /\ Len(up'.progress) >= Len(up.progress)
             /\ SubSeq(up'.progress, 1, Len(up.progress)) = up.progress
             /\ SubSeq(sessions'[up.upload_id].received, 1, Len(mp_session.received))
                   = mp_session.received]_vars

\* a successful three-part upload of 250 MiB that reported 100, 200 and 250 MiB
C28_Witness ==
    /\ up.callback /\ up.pc = "uploaded" /\ up.success
    /\ up.progress = <<B(100 * MiB), B(200 * MiB), B(250 * MiB)>>

\* a step in which GET /stream/{file_id} or GET /api/file/{file_id} answers
web_file_step ==
    /\ reply' # reply
    /\ reply'.op \in {"stream", "api_file"}
    /\ reply'.via = "web"

\* C29: starting from the empty tables, every row of files has is_public =
\* TRUE in every reachable state, the download-link operation never answers
\* Denied, and GET /stream and GET /api/file answer 404 only for a file id
\* that has no row.
C29_CreatedRowsPublic ==
    /\ [](\A f \in DOMAIN files : files[f].is_public)
    /\ [](dl.result # "Denied")
    /\ [][web_file_step =>
             (reply'.result = "NotFound" <=> reply'.file_id \notin DOMAIN files)]_vars

\* user 2 obtained a download link for a file saved by user 1, and the web
\* routes answered for a saved file
C29_Witness ==
    /\ dl.result = "Url" /\ dl.bot = "bot" /\ dl.path = "command" /\ dl.user = 2
    /\ dl.file_id \in DOMAIN files /\ files[dl.file_id].uploader_id = 1
    /\ reply.op = "api_file" /\ reply.result = "Row"

\* request r has its SELECT answered in this step
link_looked_up(r) == req[r].pc = "idle" /\ req'[r] # req[r]

\* request r has its UPDATE done and is redirected in this step
link_resolved(r) == req[r].pc = "increment" /\ req'[r].pc = "idle"

\* C30: a resolution through GET /d/{link_id} adds one to the access_count of
\* the row of that link and changes nothing else in download_links, files
\* (download_count included) and shared_files; whether the link resolves
\* depends on the link row and the existence of the file only, not on
\* is_public, and the request carries no identity.
C30_ResolutionFrame ==
    [][\A r \in 1..NReq :
          /\ link_looked_up(r) =>
                /\ files' = files /\ links' = links /\ shares' = shares
                /\ req'[r].pc = "increment" <=>
                      /\ req'[r].link_id \in DOMAIN links
                      /\ links[req'[r].link_id].file_id \in DOMAIN files
                      /\ links[req'[r].link_id].expires_at = NULL
                            \/ links[req'[r].link_id].expires_at > now
                      /\ links[req'[r].link_id].max_access = -1
                            \/ links[req'[r].link_id].access_count <
                                  links[req'[r].link_id].max_access
          /\ link_resolved(r) =>
                /\ files' = files /\ shares' = shares
                /\ DOMAIN links' = DOMAIN links
                /\ \A l \in DOMAIN links :
                      links'[l] = IF l = req[r].link_id
                                  THEN [links[l] EXCEPT !.access_count = @ + 1]
                                  ELSE links[l]
      ]_vars

\* a link of user 1 to a file that is not public has been resolved while a
\* second link and a share exist
C30_Witness ==
    /\ \E l \in DOMAIN links :
          /\ redirects[l] = 1 /\ links[l].access_count = 1
          /\ ~files[links[l].file_id].is_public
          /\ \E m \in DOMAIN links : m # l /\ links[m].access_count = 0
    /\ shares # <<>>
    /\ \E r \in 1..NReq : req[r].status = 307
====
